---- MODULE Spec2Model ----
(***************************************************************************)
(* The order placement saga of order-validator-service.                    *)
(*                                                                         *)
(* OrderHandler.PlaceOrder starts one PlaceOrderWorkflow per accepted      *)
(* call.  The workflow runs ValidateOrder, ReserveFunds, PlaceOrderInBook  *)
(* and CommitReservation as Temporal activities (at most MaximumAttempts   *)
(* attempts each) and, once funds are reserved, a deferred compensate      *)
(* that runs CancelOrder and CancelReservation (one attempt each) when     *)
(* the workflow returns with status FAILED.                                *)
(*                                                                         *)
(* Every activity attempt is two steps: the call (the request leaves the   *)
(* workflow) and the return (the downstream service has answered, or the   *)
(* attempt has failed or timed out).  The wallet and the order book are    *)
(* the environment: they deduplicate by idempotency key.                   *)
(* Decimals are counted in thousandths.                                    *)
(***************************************************************************)
EXTENDS Integers, Sequences, FiniteSets, TLC

VARIABLES
    input,          \* per saga: PlaceOrderWorkflowInput.OrderRequest (NoRequest: not started)
    pc,             \* per saga: the workflow's position
    inflight,       \* per saga: the request of the attempt in flight (NotInFlight: none)
    attempts,       \* per saga: attempts made of the current activity
    result,         \* per saga: *PlaceOrderWorkflowResult
    err,            \* per saga: the error PlaceOrderWorkflow returns
    reservationID,  \* per saga: local reservationID
    orderID,        \* per saga: local orderID
    placeMatchID,   \* per saga: placeOrderResult.MatchID
    deferred,       \* per saga: the deferred compensation is registered
    returned,       \* per saga: what the workflow returned (NotReturned before)
    history,        \* per saga and activity: attempts made, requests sent, last outcome
    wallet,         \* wallet-service: reserve key -> reservation
    book,           \* order-book-service: place key -> order
    response,       \* the handler's last response
    cfg             \* main: what config.Load("") returned

vars == <<input, pc, inflight, attempts, result, err, reservationID, orderID,
          placeMatchID, deferred, returned, history, wallet, book, response,
          cfg>>

----------------------------------------------------------------------------
(* Bounds *)

\* How many distinct values uuid.New() can take.
NumUUIDs == 2

UUIDs == 1 .. NumUUIDs

----------------------------------------------------------------------------
(* models.OrderStatus and the activity retry options *)

OrderStatusPending == "PENDING"
OrderStatusValidating == "VALIDATING"
OrderStatusReserving == "RESERVING"
OrderStatusMatching == "MATCHING"
OrderStatusSettled == "SETTLED"
OrderStatusFailed == "FAILED"
OrderStatusCancelled == "CANCELLED"

OrderStatus ==
    { OrderStatusPending, OrderStatusValidating, OrderStatusReserving,
      OrderStatusMatching, OrderStatusSettled, OrderStatusFailed,
      OrderStatusCancelled }

\* activityOptions.RetryPolicy.MaximumAttempts
MaximumAttempts == 3

\* compensationOptions.RetryPolicy.MaximumAttempts
CompensationMaximumAttempts == 1

----------------------------------------------------------------------------
(* Saga identifiers and idempotency keys *)

\* fmt.Sprintf("place-order-%s", uuid.New().String())
SagaIDOf(u) == "place-order-" \o ToString(u)

SagaIDs == { SagaIDOf(u) : u \in UUIDs }

ReserveKey(req) == req.IdempotencyKey \o "-reserve"
OrderKey(req) == req.IdempotencyKey \o "-order"
CommitKey(req) == req.IdempotencyKey \o "-commit"
CancelOrderKey(sagaID) == sagaID \o "-cancel-order"
CancelReservationKey(sagaID) == sagaID \o "-cancel-reservation"

----------------------------------------------------------------------------
(* models.PlaceOrderRequest.Validate and ValidationActivities.ValidateOrder *)

ErrInvalidOdds == "invalid odds: must be greater than 1.0"
ErrInvalidStake == "invalid stake: must be positive"
ErrInvalidCurrency == "invalid currency: must be 3-letter code"
ErrInvalidSide == "invalid side: must be BACK or LAY"

OrderSideBack == "BACK"
OrderSideLay == "LAY"

\* NewValidationActivities: the thresholds, in thousandths
minStake == 1000
maxStake == 10000000
minOdds == 1010
maxOdds == 1000000

\* Validate checking the currency and the side before the odds and the stake.
RequestValidate_FieldsFirst(r) ==
    IF Len(r.Currency) # 3 THEN ErrInvalidCurrency
    ELSE IF r.Side # OrderSideBack /\ r.Side # OrderSideLay THEN ErrInvalidSide
    ELSE IF r.Odds <= 1000 THEN ErrInvalidOdds
    ELSE IF r.Stake <= 0 THEN ErrInvalidStake
    ELSE ""

\* The error of PlaceOrderRequest.Validate, "" for nil.
RequestValidate(r) ==
    IF r.Odds <= 1000 THEN ErrInvalidOdds
    ELSE IF r.Stake <= 0 THEN ErrInvalidStake
    ELSE IF Len(r.Currency) # 3 THEN ErrInvalidCurrency
    ELSE IF r.Side # OrderSideBack /\ r.Side # OrderSideLay THEN ErrInvalidSide
    ELSE ""

\* ValidateOrder answering an odds limit with models.ErrOddsOutOfRange.
ValidateOrder_OddsOutOfRange(r) ==
    IF RequestValidate(r) # ""
        THEN [Valid |-> FALSE, Reason |-> RequestValidate(r)]
    ELSE IF r.Stake < minStake
        THEN [Valid |-> FALSE, Reason |-> "stake too low: minimum is 1"]
    ELSE IF r.Stake > maxStake
        THEN [Valid |-> FALSE, Reason |-> "stake too high: maximum is 10000"]
    ELSE IF r.Odds < minOdds
        THEN [Valid |-> FALSE, Reason |-> "odds out of acceptable range"]
    ELSE IF r.Odds > maxOdds
        THEN [Valid |-> FALSE, Reason |-> "odds out of acceptable range"]
    ELSE [Valid |-> TRUE, Reason |-> ""]

\* ValidateOrder with the thresholds themselves out of range.
ValidateOrder_ExclusiveBounds(r) ==
    IF RequestValidate(r) # ""
        THEN [Valid |-> FALSE, Reason |-> RequestValidate(r)]
    ELSE IF r.Stake <= minStake
        THEN [Valid |-> FALSE, Reason |-> "stake too low: minimum is 1"]
    ELSE IF r.Stake >= maxStake
        THEN [Valid |-> FALSE, Reason |-> "stake too high: maximum is 10000"]
    ELSE IF r.Odds <= minOdds
        THEN [Valid |-> FALSE, Reason |-> "odds too low: minimum is 1.01"]
    ELSE IF r.Odds >= maxOdds
        THEN [Valid |-> FALSE, Reason |-> "odds too high: maximum is 1000"]
    ELSE [Valid |-> TRUE, Reason |-> ""]

\* The *workflow.ValidationResult of ValidateOrder.
ValidateOrder(r) ==
    IF RequestValidate(r) # ""
        THEN [Valid |-> FALSE, Reason |-> RequestValidate(r)]
    ELSE IF r.Stake < minStake
        THEN [Valid |-> FALSE, Reason |-> "stake too low: minimum is 1"]
    ELSE IF r.Stake > maxStake
        THEN [Valid |-> FALSE, Reason |-> "stake too high: maximum is 10000"]
    ELSE IF r.Odds < minOdds
        THEN [Valid |-> FALSE, Reason |-> "odds too low: minimum is 1.01"]
    ELSE IF r.Odds > maxOdds
        THEN [Valid |-> FALSE, Reason |-> "odds too high: maximum is 1000"]
    ELSE [Valid |-> TRUE, Reason |-> ""]

----------------------------------------------------------------------------
(* The downstream services.  Both deduplicate by idempotency key: a key    *)
(* seen before changes nothing and is answered as the first time.          *)

\* wallet-service ReserveBalance: one reservation per idempotency key.
WalletReserve(w, key) ==
    IF key \in DOMAIN w THEN w
    ELSE w @@ (key :> [id |-> "res-" \o key, state |-> "held"])

WalletKeysOf(w, id) == { k \in DOMAIN w : w[k].id = id }

\* wallet-service CommitReservation: a held reservation becomes committed;
\* an unknown or cancelled reservation is refused.
WalletCanCommit(w, id) ==
    \E k \in WalletKeysOf(w, id) : w[k].state \in {"held", "committed"}

WalletCommit(w, id) ==
    [k \in DOMAIN w |->
        IF w[k].id = id /\ w[k].state = "held"
            THEN [w[k] EXCEPT !.state = "committed"] ELSE w[k]]

\* wallet-service CancelReservation: a held reservation becomes cancelled,
\* an unknown one is a no-op; a committed reservation is refused.
WalletCanCancel(w, id) ==
    \A k \in WalletKeysOf(w, id) : w[k].state \in {"held", "cancelled"}

WalletCancel(w, id) ==
    [k \in DOMAIN w |->
        IF w[k].id = id /\ w[k].state = "held"
            THEN [w[k] EXCEPT !.state = "cancelled"] ELSE w[k]]

\* What order-book-service PlaceBet can answer on a placement.
PlaceBetAnswers ==
    [status : {"MATCHED", "PENDING", "PARTIALLY_FILLED"}, matched : BOOLEAN]
        \cup {[status |-> "CANCELLED", matched |-> FALSE]}

\* order-book-service PlaceBet: one order per idempotency key.
BookPlace(b, key, answer) ==
    IF key \in DOMAIN b THEN b
    ELSE b @@ (key :> [id |-> "ord-" \o key,
                       matchId |-> IF answer.matched THEN "match-" \o key ELSE "",
                       status |-> answer.status,
                       state |-> IF answer.status = "CANCELLED"
                                     THEN "cancelled" ELSE "open"])

\* order-book-service CancelBet: an open order becomes cancelled.
BookCancel(b, id) ==
    [k \in DOMAIN b |->
        IF b[k].id = id THEN [b[k] EXCEPT !.state = "cancelled"] ELSE b[k]]

----------------------------------------------------------------------------
(* config.Load and Config.Validate *)

\* setDefaults
DefaultConfig ==
    [GRPCPort |-> 8090, HTTPPort |-> 8091, MetricsPort |-> 9091,
     ServerAddress |-> "temporal-frontend.workflows.svc.cluster.local:7233",
     Namespace |-> "tam-platform", TaskQueue |-> "order-validator",
     WalletServiceAddr |-> "wallet-service.default.svc.cluster.local:8080",
     OrderBookServiceAddr |-> "order-book.default.svc.cluster.local:8082",
     Level |-> "info"]

\* strings.ToLower on the level texts of the model.
ToLower(text) ==
    CASE text = "INFO" -> "info"
      [] text = "Warn" -> "warn"
      [] OTHER -> text

validLevels == {"debug", "info", "warn", "error", "fatal", "panic"}

\* Config.Validate: the error it returns, "" for nil.
ConfigValidate(c) ==
    IF c.GRPCPort <= 0 \/ c.GRPCPort > 65535 THEN "invalid gRPC port"
    ELSE IF c.HTTPPort <= 0 \/ c.HTTPPort > 65535 THEN "invalid HTTP port"
    ELSE IF c.ServerAddress = "" THEN "Temporal server address is required"
    ELSE IF c.Namespace = "" THEN "Temporal namespace is required"
    ELSE IF c.TaskQueue = "" THEN "Temporal task queue is required"
    ELSE IF c.WalletServiceAddr = "" THEN "wallet service address is required"
    ELSE IF ToLower(c.Level) \notin validLevels THEN "invalid log level"
    ELSE ""

\* What Load has unmarshalled and not validated yet, and what it returns.
Unmarshalled(c) == [config |-> c, validated |-> FALSE, err |-> ""]

Loaded(c) ==
    [config |-> c, validated |-> TRUE,
     err |-> IF ConfigValidate(c) = "" THEN ""
             ELSE "validate config: " \o ConfigValidate(c)]

----------------------------------------------------------------------------
(* State *)

NoRequest == [none |-> TRUE]
NotReturned == [none |-> TRUE]
NoResponse == [none |-> TRUE]
NotInFlight == [none |-> TRUE]

Activities ==
    { "ValidateOrder", "ReserveFunds", "PlaceOrderInBook", "CommitReservation",
      "CancelOrder", "CancelReservation" }

\* How an attempt can end: answered, failed without effect (refused or
\* unreachable), or timed out after the service applied the request.
Outcomes == {"ok", "error", "timeout"}

NoHistory == [a \in Activities |-> [calls |-> 0, sent |-> {}, last |-> "none"]]

\* result := &PlaceOrderWorkflowResult{SagaID: ..., Status: OrderStatusPending}
NewResult ==
    [Status |-> OrderStatusPending, OrderID |-> "", ReservationID |-> "",
     MatchID |-> "", FailureReason |-> ""]

Init ==
    /\ input = [s \in SagaIDs |-> NoRequest]
    /\ pc = [s \in SagaIDs |-> "none"]
    /\ inflight = [s \in SagaIDs |-> NotInFlight]
    /\ attempts = [s \in SagaIDs |-> 0]
    /\ result = [s \in SagaIDs |-> NewResult]
    /\ err = [s \in SagaIDs |-> ""]
    /\ reservationID = [s \in SagaIDs |-> ""]
    /\ orderID = [s \in SagaIDs |-> ""]
    /\ placeMatchID = [s \in SagaIDs |-> ""]
    /\ deferred = [s \in SagaIDs |-> FALSE]
    /\ returned = [s \in SagaIDs |-> NotReturned]
    /\ history = [s \in SagaIDs |-> NoHistory]
    /\ wallet = <<>>
    /\ book = <<>>
    /\ response = NoResponse
    /\ cfg = Loaded(DefaultConfig)

----------------------------------------------------------------------------
(* OrderHandler.PlaceOrder *)

\* uuid.Parse: the user ids that parse.
ParsesAsUUID(text) == text \in {"6ba7b810-9dad-11d1-80b4-00c04fd430c8"}

\* decimal.NewFromString: the decimal texts of the model and their values
\* in thousandths; any other text does not parse.
DecimalTexts == {"0.5", "2.5", "100"}

DecimalFromString(text) ==
    CASE text = "0.5" -> 500
      [] text = "2.5" -> 2500
      [] text = "100" -> 100000

\* decimal.Decimal.String(): the decimal text of a value in thousandths,
\* without trailing zeros.
DecimalString(v) ==
    LET whole == v \div 1000
        d1 == (v % 1000) \div 100
        d2 == (v % 100) \div 10
        d3 == v % 10 IN
    ToString(whole) \o
        (IF v % 1000 = 0 THEN ""
         ELSE "." \o ToString(d1) \o
              (IF d2 = 0 /\ d3 = 0 THEN ""
               ELSE ToString(d2) \o (IF d3 = 0 THEN "" ELSE ToString(d3))))

\* The placement calls a client can make.
PlaceOrderRequests ==
    [UserId : {"6ba7b810-9dad-11d1-80b4-00c04fd430c8", "not-a-uuid"},
     EventId : {"event_123"}, MarketId : {"market_456"},
     SelectionId : {"selection_789"}, Side : {"BACK"},
     Odds : {"2.5", "abc"}, Stake : {"100", "0.5", "abc"}, Currency : {"USD"},
     IdempotencyKey : {"", "key-1", SagaIDOf(1) \o "-cancel"}]

InvalidArgument(msg) ==
    [code |-> "InvalidArgument", message |-> msg, SagaId |-> "", Status |-> ""]

\* The models.PlaceOrderRequest the handler builds from a request that parses.
OrderRequestOf(req) ==
    [UserID |-> req.UserId, EventID |-> req.EventId, MarketID |-> req.MarketId,
     SelectionID |-> req.SelectionId, Side |-> req.Side,
     Odds |-> DecimalFromString(req.Odds), Stake |-> DecimalFromString(req.Stake),
     Currency |-> req.Currency, IdempotencyKey |-> req.IdempotencyKey]

\* The handler checking the idempotency key before it parses anything.
RequestRejection_KeyFirst(req) ==
    IF req.IdempotencyKey = "" THEN "idempotency_key is required"
    ELSE IF ~ParsesAsUUID(req.UserId) THEN "invalid user ID format"
    ELSE IF req.Stake \notin DecimalTexts THEN "invalid stake format"
    ELSE IF req.Odds \notin DecimalTexts THEN "invalid odds format"
    ELSE ""

\* The first request check that fails, "" when the request is accepted.
RequestRejection(req) ==
    IF ~ParsesAsUUID(req.UserId) THEN "invalid user ID format"
    ELSE IF req.Stake \notin DecimalTexts THEN "invalid stake format"
    ELSE IF req.Odds \notin DecimalTexts THEN "invalid odds format"
    ELSE IF req.IdempotencyKey = "" THEN "idempotency_key is required"
    ELSE ""

WorkflowVars ==
    <<input, pc, inflight, attempts, result, err, reservationID, orderID,
      placeMatchID, deferred, returned, history>>

\* The handler answering a request whose idempotency key a saga already
\* carries with that saga, and starting nothing.
PlaceOrder_DeduplicatesKey(req, u, started) ==
    LET sagaID == SagaIDOf(u)
        same == { t \in SagaIDs : /\ input[t] # NoRequest
                                  /\ input[t].IdempotencyKey = req.IdempotencyKey } IN
    /\ input[sagaID] = NoRequest
    /\ IF RequestRejection(req) # ""
         THEN /\ response' = InvalidArgument(RequestRejection(req))
              /\ UNCHANGED WorkflowVars
         ELSE IF ~started
         THEN /\ response' = [code |-> "Internal",
                              message |-> "failed to start order workflow",
                              SagaId |-> "", Status |-> ""]
              /\ UNCHANGED WorkflowVars
         ELSE IF same # {}
         THEN /\ response' = [code |-> "OK", message |-> "",
                              SagaId |-> CHOOSE t \in same : TRUE,
                              Status |-> OrderStatusPending]
              /\ UNCHANGED WorkflowVars
         ELSE /\ response' = [code |-> "OK", message |-> "", SagaId |-> sagaID,
                              Status |-> OrderStatusPending]
              /\ input' = [input EXCEPT ![sagaID] = OrderRequestOf(req)]
              /\ pc' = [pc EXCEPT ![sagaID] = "ValidateOrder"]
              /\ result' = [result EXCEPT ![sagaID] = NewResult]
              /\ UNCHANGED <<inflight, attempts, err, reservationID, orderID,
                             placeMatchID, deferred, returned, history>>
    /\ UNCHANGED <<cfg, wallet, book>>

\* The handler answering with the run's identifier instead of the saga's.
PlaceOrder_RunID(req, u, started) ==
    LET sagaID == SagaIDOf(u) IN
    /\ input[sagaID] = NoRequest
    /\ IF RequestRejection(req) # ""
         THEN /\ response' = InvalidArgument(RequestRejection(req))
              /\ UNCHANGED WorkflowVars
         ELSE IF ~started
         THEN /\ response' = [code |-> "Internal",
                              message |-> "failed to start order workflow",
                              SagaId |-> "", Status |-> ""]
              /\ UNCHANGED WorkflowVars
         ELSE /\ response' = [code |-> "OK", message |-> "",
                              SagaId |-> "run-" \o ToString(u),
                              Status |-> OrderStatusPending]
              /\ input' = [input EXCEPT ![sagaID] = OrderRequestOf(req)]
              /\ pc' = [pc EXCEPT ![sagaID] = "ValidateOrder"]
              /\ result' = [result EXCEPT ![sagaID] = NewResult]
              /\ UNCHANGED <<inflight, attempts, err, reservationID, orderID,
                             placeMatchID, deferred, returned, history>>
    /\ UNCHANGED <<cfg, wallet, book>>

\* PlaceOrder on request req; u is what uuid.New() returns and started tells
\* whether temporalClient.ExecuteWorkflow started the workflow.
PlaceOrder(req, u, started) ==
    LET sagaID == SagaIDOf(u) IN
    /\ input[sagaID] = NoRequest
    /\ IF RequestRejection(req) # ""
         THEN /\ response' = InvalidArgument(RequestRejection(req))
              /\ UNCHANGED WorkflowVars
         ELSE IF ~started
         THEN /\ response' = [code |-> "Internal",
                              message |-> "failed to start order workflow",
                              SagaId |-> "", Status |-> ""]
              /\ UNCHANGED WorkflowVars
         ELSE /\ response' = [code |-> "OK", message |-> "", SagaId |-> sagaID,
                              Status |-> OrderStatusPending]
              /\ input' = [input EXCEPT ![sagaID] = OrderRequestOf(req)]
              /\ pc' = [pc EXCEPT ![sagaID] = "ValidateOrder"]
              /\ result' = [result EXCEPT ![sagaID] = NewResult]
              /\ UNCHANGED <<inflight, attempts, err, reservationID, orderID,
                             placeMatchID, deferred, returned, history>>
    /\ UNCHANGED <<cfg, wallet, book>>

----------------------------------------------------------------------------
(* OrderHandler.GetOrderStatus *)

StatusResponse(sagaID, status, res) ==
    [code |-> "OK", message |-> "", SagaId |-> sagaID, Status |-> status,
     OrderId |-> res.OrderID, ReservationId |-> res.ReservationID,
     MatchId |-> res.MatchID, FailureReason |-> res.FailureReason]

StatusError(c, msg) ==
    [code |-> c, message |-> msg, SagaId |-> "", Status |-> "", OrderId |-> "",
     ReservationId |-> "", MatchId |-> "", FailureReason |-> ""]

\* description.WorkflowExecutionInfo.Status.String() of the workflow of a
\* saga: Temporal's execution status, not the saga's OrderStatus.
WorkflowExecutionStatus(sagaID) ==
    IF returned[sagaID] = NotReturned THEN "Running"
    ELSE IF returned[sagaID].err # "" THEN "Failed"
    ELSE "Completed"

\* GetOrderStatus on saga id sagaID.  workflowRun.Get gives an error when no
\* such workflow exists, when the context ends while the workflow still runs,
\* and when the workflow returned a non-nil error: its result is then not
\* delivered and the handler answers from DescribeWorkflowExecution.
GetOrderStatus(sagaID) ==
    /\ response' =
          IF sagaID = "" THEN StatusError("InvalidArgument", "saga_id is required")
          ELSE IF sagaID \notin SagaIDs \/ input[sagaID] = NoRequest
            THEN StatusError("NotFound", "workflow not found")
          ELSE IF returned[sagaID] = NotReturned \/ returned[sagaID].err # ""
            THEN StatusResponse(sagaID, WorkflowExecutionStatus(sagaID), NewResult)
          ELSE StatusResponse(sagaID, returned[sagaID].result.Status,
                              returned[sagaID].result)
    /\ UNCHANGED <<cfg, WorkflowVars, wallet, book>>

----------------------------------------------------------------------------
(* Temporal's ExecuteActivity(...).Get *)

\* The compensations retried like the forward steps.
MaxAttemptsOf_Uniform(activity) == MaximumAttempts

MaxAttemptsOf(activity) ==
    IF activity \in {"CancelOrder", "CancelReservation"}
        THEN CompensationMaximumAttempts ELSE MaximumAttempts

\* An attempt starting while another call of the saga is still in flight.
Call_Overlapping(s, activity, request) ==
    /\ pc[s] = activity
    /\ attempts[s] < MaxAttemptsOf(activity)
    /\ inflight' = [inflight EXCEPT ![s] = request]
    /\ attempts' = [attempts EXCEPT ![s] = @ + 1]
    /\ history' = [history EXCEPT
            ![s][activity].calls = @ + 1,
            ![s][activity].sent = @ \cup {request}]
    /\ UNCHANGED <<cfg, input, pc, result, err, reservationID, orderID, placeMatchID,
                   deferred, returned, wallet, book, response>>

\* An attempt of the activity the saga is at starts: the request is sent.
Call(s, activity, request) ==
    /\ pc[s] = activity
    /\ inflight[s] = NotInFlight
    /\ inflight' = [inflight EXCEPT ![s] = request]
    /\ attempts' = [attempts EXCEPT ![s] = @ + 1]
    /\ history' = [history EXCEPT
            ![s][activity].calls = @ + 1,
            ![s][activity].sent = @ \cup {request}]
    /\ UNCHANGED <<cfg, input, pc, result, err, reservationID, orderID, placeMatchID,
                   deferred, returned, wallet, book, response>>

\* A failed attempt below the attempt limit is retried: Get has not returned.
Retried(s, activity, outcome) ==
    /\ outcome # "ok"
    /\ attempts[s] < MaxAttemptsOf(activity)

Seen(s, activity, outcome) ==
    [history EXCEPT ![s][activity].last = outcome]

\* The workflow stays at the activity for its next attempt.
Retry(s, activity, outcome) ==
    /\ inflight' = [inflight EXCEPT ![s] = NotInFlight]
    /\ history' = Seen(s, activity, outcome)
    /\ UNCHANGED <<pc, attempts, result, err, reservationID, orderID,
                   placeMatchID, deferred, returned>>

ActivityError(activity) == "activity error: " \o activity

----------------------------------------------------------------------------
(* PlaceOrderWorkflow and compensate *)

\* compensate cancelling the reservation without looking at its identifier.
CompensateStart_AlwaysReservation(rid, oid) ==
    IF oid # "" THEN "CancelOrder" ELSE "CancelReservation"

\* compensate cancelling the reservation first and the order never.
CompensateStart_ReservationFirst(rid, oid) ==
    IF rid # "" THEN "CancelReservation"
    ELSE IF oid # "" THEN "CancelOrder"
    ELSE "done"

\* The activity compensate(reservationID, orderID, ...) runs first.
CompensateStart(rid, oid) ==
    IF oid # "" THEN "CancelOrder"
    ELSE IF rid # "" THEN "CancelReservation"
    ELSE "done"

\* compensate calling CancelOrder again until it succeeds.
CompensateNext_UntilCancelled(rid, outcome) ==
    IF outcome # "ok" THEN "CancelOrder"
    ELSE IF rid # "" THEN "CancelReservation" ELSE "done"

\* compensate giving up when CancelOrder fails.
CompensateNext_StopOnError(rid, outcome) ==
    IF rid # "" /\ outcome = "ok" THEN "CancelReservation" ELSE "done"

\* The activity compensate runs after CancelOrder has returned with outcome:
\* an error is logged and compensate continues with the other compensations.
CompensateNext(rid, outcome) ==
    IF rid # "" THEN "CancelReservation" ELSE "done"

\* The deferred function compensating whatever the status.
DeferredStart_AnyStatus(isDeferred, status, rid, oid) ==
    IF isDeferred THEN CompensateStart(rid, oid) ELSE "done"

\* The deferred function compensating only a placed order.
DeferredStart_OnlyWithOrder(isDeferred, status, rid, oid) ==
    IF isDeferred /\ status \in {OrderStatusFailed, OrderStatusCancelled} /\ oid # ""
        THEN CompensateStart(rid, oid) ELSE "done"

\* The deferred function: compensate when the result's status asks for it.
DeferredStart(isDeferred, status, rid, oid) ==
    IF isDeferred /\ status \in {OrderStatusFailed, OrderStatusCancelled}
        THEN CompensateStart(rid, oid) ELSE "done"

\* The workflow handing back its result with a nil error.
FinalReport_NilError(res, e, compensationFailed) == [result |-> res, err |-> ""]

\* What the workflow hands back to its caller.  compensate has no return
\* value and writes nothing into result: a failed compensation is logged.
FinalReport(res, e, compensationFailed) == [result |-> res, err |-> e]

CompensationFailed(h) ==
    \E a \in {"CancelOrder", "CancelReservation"} :
        h[a].last \in {"error", "timeout"}

\* The workflow goes on to the next activity.
Advance(s, next, res) ==
    /\ pc' = [pc EXCEPT ![s] = next]
    /\ attempts' = [attempts EXCEPT ![s] = 0]
    /\ inflight' = [inflight EXCEPT ![s] = NotInFlight]
    /\ result' = [result EXCEPT ![s] = res]
    /\ UNCHANGED <<err, returned>>

\* The workflow's outcome reported before the deferred compensation runs.
WorkflowReturn_ReportFirst(s, res, e) ==
    LET next == DeferredStart(deferred[s], res.Status, reservationID[s], orderID[s]) IN
    /\ pc' = [pc EXCEPT ![s] = next]
    /\ attempts' = [attempts EXCEPT ![s] = 0]
    /\ inflight' = [inflight EXCEPT ![s] = NotInFlight]
    /\ result' = [result EXCEPT ![s] = res]
    /\ err' = [err EXCEPT ![s] = e]
    /\ returned' = [returned EXCEPT ![s] = FinalReport(res, e, FALSE)]

\* "return result, err": the deferred function runs before the caller gets
\* the result.
WorkflowReturn(s, res, e) ==
    LET next == DeferredStart(deferred[s], res.Status, reservationID[s], orderID[s]) IN
    /\ pc' = [pc EXCEPT ![s] = next]
    /\ attempts' = [attempts EXCEPT ![s] = 0]
    /\ inflight' = [inflight EXCEPT ![s] = NotInFlight]
    /\ result' = [result EXCEPT ![s] = res]
    /\ err' = [err EXCEPT ![s] = e]
    /\ returned' = IF next = "done"
                     THEN [returned EXCEPT ![s] = FinalReport(res, e, FALSE)]
                     ELSE returned

\* The failure path marking the saga Cancelled.
Failed_AsCancelled(res, reason) ==
    [res EXCEPT !.Status = OrderStatusCancelled, !.FailureReason = reason]

\* The failure path starting the result over.
Failed_Reset(res, reason) == [NewResult EXCEPT !.FailureReason = reason]

Failed(res, reason) ==
    [res EXCEPT !.Status = OrderStatusFailed, !.FailureReason = reason]

\* Settling without recording the match.
Settled_NoMatch(res, matchID) == [res EXCEPT !.Status = OrderStatusSettled]

\* Success: result.Status = Settled, result.MatchID = placeOrderResult.MatchID
Settled(res, matchID) ==
    [res EXCEPT !.Status = OrderStatusSettled, !.MatchID = matchID]

\* Step 1: Validate Order
ValidateOrderInput(s) == [key |-> "", id |-> ""]

ValidateOrderCall(s) == Call(s, "ValidateOrder", ValidateOrderInput(s))

\* The workflow going on to reserve funds whatever the validator answered.
ValidateOrderReturn_IgnoreValid(s, outcome) ==
    LET e == ActivityError("ValidateOrder") IN
    /\ pc[s] = "ValidateOrder"
    /\ inflight[s] # NotInFlight
    /\ outcome \in {"ok", "error"}
    /\ UNCHANGED <<cfg, input, response, wallet, book>>
    /\ IF Retried(s, "ValidateOrder", outcome)
         THEN Retry(s, "ValidateOrder", outcome)
         ELSE /\ history' = Seen(s, "ValidateOrder", outcome)
              /\ UNCHANGED <<reservationID, orderID, placeMatchID, deferred>>
              /\ IF outcome # "ok"
                   THEN WorkflowReturn(s,
                            Failed(result[s], "validation failed: " \o e), e)
                   ELSE Advance(s, "ReserveFunds",
                            [result[s] EXCEPT !.Status = OrderStatusReserving])

ValidateOrderReturn(s, outcome) ==
    LET validationResult == ValidateOrder(input[s])
        e == ActivityError("ValidateOrder") IN
    /\ pc[s] = "ValidateOrder"
    /\ inflight[s] # NotInFlight
    /\ outcome \in {"ok", "error"}
    /\ UNCHANGED <<cfg, input, response, wallet, book>>
    /\ IF Retried(s, "ValidateOrder", outcome)
         THEN Retry(s, "ValidateOrder", outcome)
         ELSE /\ history' = Seen(s, "ValidateOrder", outcome)
              /\ UNCHANGED <<reservationID, orderID, placeMatchID, deferred>>
              /\ IF outcome # "ok"
                   THEN WorkflowReturn(s,
                            Failed(result[s], "validation failed: " \o e), e)
                 ELSE IF ~validationResult.Valid
                   THEN WorkflowReturn(s,
                            Failed(result[s], validationResult.Reason),
                            "validation failed: " \o validationResult.Reason)
                 ELSE Advance(s, "ReserveFunds",
                            [result[s] EXCEPT !.Status = OrderStatusReserving])

\* Step 2: Reserve Funds in Wallet
\* A reserve request whose idempotency key changes with the attempt.
ReserveFundsInput_KeyPerAttempt(s) ==
    [key |-> ReserveKey(input[s]) \o "-" \o ToString(attempts[s]), id |-> ""]

ReserveFundsInput(s) ==
    [key |-> ReserveKey(input[s]), id |-> "",
     UserID |-> input[s].UserID, Amount |-> DecimalString(input[s].Stake),
     Currency |-> input[s].Currency, SagaID |-> s]

\* WalletActivities.ReserveFunds: the walletpb.ReserveBalanceRequest it sends.
ReserveBalanceRequest(in) ==
    [UserId |-> in.UserID, Amount |-> in.Amount, SagaId |-> in.SagaID,
     IdempotencyKey |-> in.key]

ReserveFundsCall(s) == Call(s, "ReserveFunds", ReserveFundsInput(s))

\* The workflow recording the failed reservation and going on without
\* returning.
ReserveFundsReturn_NoReturn(s, outcome) ==
    LET key == inflight[s].key
        e == ActivityError("ReserveFunds") IN
    /\ pc[s] = "ReserveFunds"
    /\ inflight[s] # NotInFlight
    /\ wallet' = IF outcome = "error" THEN wallet ELSE WalletReserve(wallet, key)
    /\ UNCHANGED <<cfg, input, response, book>>
    /\ IF Retried(s, "ReserveFunds", outcome)
         THEN Retry(s, "ReserveFunds", outcome)
         ELSE /\ history' = Seen(s, "ReserveFunds", outcome)
              /\ UNCHANGED <<orderID, placeMatchID>>
              /\ IF outcome # "ok"
                   THEN /\ Advance(s, "PlaceOrderInBook",
                             Failed(result[s], "fund reservation failed: " \o e))
                        /\ UNCHANGED <<reservationID, deferred>>
                   ELSE /\ reservationID' =
                             [reservationID EXCEPT ![s] = wallet'[key].id]
                        /\ deferred' = [deferred EXCEPT ![s] = TRUE]
                        /\ Advance(s, "PlaceOrderInBook",
                             [result[s] EXCEPT
                                 !.ReservationID = wallet'[key].id,
                                 !.Status = OrderStatusMatching])

ReserveFundsReturn(s, outcome) ==
    LET key == inflight[s].key
        e == ActivityError("ReserveFunds") IN
    /\ pc[s] = "ReserveFunds"
    /\ inflight[s] # NotInFlight
    /\ wallet' = IF outcome = "error" THEN wallet ELSE WalletReserve(wallet, key)
    /\ UNCHANGED <<cfg, input, response, book>>
    /\ IF Retried(s, "ReserveFunds", outcome)
         THEN Retry(s, "ReserveFunds", outcome)
         ELSE /\ history' = Seen(s, "ReserveFunds", outcome)
              /\ UNCHANGED <<orderID, placeMatchID>>
              /\ IF outcome # "ok"
                   THEN /\ WorkflowReturn(s,
                             Failed(result[s], "fund reservation failed: " \o e), e)
                        /\ UNCHANGED <<reservationID, deferred>>
                   ELSE /\ reservationID' =
                             [reservationID EXCEPT ![s] = wallet'[key].id]
                        /\ deferred' = [deferred EXCEPT ![s] = TRUE]
                        /\ Advance(s, "PlaceOrderInBook",
                             [result[s] EXCEPT
                                 !.ReservationID = wallet'[key].id,
                                 !.Status = OrderStatusMatching])

\* Step 3: Place Order in Order Book
PlaceOrderInBookInput(s) ==
    [key |-> OrderKey(input[s]), id |-> reservationID[s],
     UserID |-> input[s].UserID, EventID |-> input[s].EventID,
     MarketID |-> input[s].MarketID, SelectionID |-> input[s].SelectionID,
     Side |-> input[s].Side, Odds |-> DecimalString(input[s].Odds),
     Stake |-> DecimalString(input[s].Stake), Currency |-> input[s].Currency,
     SagaID |-> s]

\* OrderBookActivities.PlaceOrderInBook: the orderbookpb.PlaceBetRequest it
\* sends.
PlaceBetRequest(in) ==
    [UserId |-> in.UserID, EventId |-> in.EventID, MarketId |-> in.MarketID,
     SelectionId |-> in.SelectionID, BetType |-> in.Side, Odds |-> in.Odds,
     Stake |-> in.Stake, ReservationId |-> in.id, SagaId |-> in.SagaID,
     IdempotencyKey |-> in.key]

PlaceOrderInBookCall(s) == Call(s, "PlaceOrderInBook", PlaceOrderInBookInput(s))

PlaceOrderInBookReturn(s, outcome, answer) ==
    LET key == inflight[s].key
        e == ActivityError("PlaceOrderInBook") IN
    /\ pc[s] = "PlaceOrderInBook"
    /\ inflight[s] # NotInFlight
    /\ book' = IF outcome = "error" THEN book ELSE BookPlace(book, key, answer)
    /\ UNCHANGED <<cfg, input, response, wallet>>
    /\ IF Retried(s, "PlaceOrderInBook", outcome)
         THEN Retry(s, "PlaceOrderInBook", outcome)
         ELSE /\ history' = Seen(s, "PlaceOrderInBook", outcome)
              /\ UNCHANGED <<reservationID, deferred>>
              /\ IF outcome # "ok"
                   THEN /\ WorkflowReturn(s,
                             Failed(result[s], "order placement failed: " \o e), e)
                        /\ UNCHANGED <<orderID, placeMatchID>>
                   ELSE /\ orderID' = [orderID EXCEPT ![s] = book'[key].id]
                        /\ placeMatchID' =
                             [placeMatchID EXCEPT ![s] = book'[key].matchId]
                        /\ Advance(s, "CommitReservation",
                             [result[s] EXCEPT !.OrderID = book'[key].id])

\* Step 4: Commit Reservation
CommitReservationInput(s) == [key |-> CommitKey(input[s]), id |-> reservationID[s]]

CommitReservationCall(s) == Call(s, "CommitReservation", CommitReservationInput(s))

CommitReservationReturn(s, outcome) ==
    LET e == ActivityError("CommitReservation") IN
    /\ pc[s] = "CommitReservation"
    /\ inflight[s] # NotInFlight
    /\ outcome # "error" => WalletCanCommit(wallet, inflight[s].id)
    /\ wallet' = IF outcome = "error" THEN wallet
                 ELSE WalletCommit(wallet, inflight[s].id)
    /\ UNCHANGED <<cfg, input, response, book>>
    /\ IF Retried(s, "CommitReservation", outcome)
         THEN Retry(s, "CommitReservation", outcome)
         ELSE /\ history' = Seen(s, "CommitReservation", outcome)
              /\ UNCHANGED <<reservationID, orderID, placeMatchID, deferred>>
              /\ IF outcome # "ok"
                   THEN WorkflowReturn(s,
                            Failed(result[s], "reservation commit failed: " \o e), e)
                   ELSE WorkflowReturn(s, Settled(result[s], placeMatchID[s]), "")

\* compensate, 1. Cancel order in order-book (if placed)
CancelOrderInput(s) == [key |-> CancelOrderKey(s), id |-> orderID[s]]

CancelOrderCall(s) == Call(s, "CancelOrder", CancelOrderInput(s))

CancelOrderReturn(s, outcome) ==
    LET next == CompensateNext(reservationID[s], outcome) IN
    /\ pc[s] = "CancelOrder"
    /\ inflight[s] # NotInFlight
    /\ book' = IF outcome = "error" THEN book ELSE BookCancel(book, inflight[s].id)
    /\ UNCHANGED <<cfg, input, response, wallet>>
    /\ IF Retried(s, "CancelOrder", outcome)
         THEN Retry(s, "CancelOrder", outcome)
         ELSE /\ history' = Seen(s, "CancelOrder", outcome)
              /\ pc' = [pc EXCEPT ![s] = next]
              /\ attempts' = [attempts EXCEPT ![s] = 0]
              /\ inflight' = [inflight EXCEPT ![s] = NotInFlight]
              /\ returned' =
                    IF next = "done"
                      THEN [returned EXCEPT ![s] = FinalReport(result[s], err[s],
                                CompensationFailed(history'[s]))]
                      ELSE returned
              /\ UNCHANGED <<result, err, reservationID, orderID, placeMatchID,
                             deferred>>

\* compensate, 2. Cancel reservation in wallet (if reserved)
CancelReservationInput(s) ==
    [key |-> CancelReservationKey(s), id |-> reservationID[s]]

CancelReservationCall(s) == Call(s, "CancelReservation", CancelReservationInput(s))

CancelReservationReturn(s, outcome) ==
    /\ pc[s] = "CancelReservation"
    /\ inflight[s] # NotInFlight
    /\ outcome # "error" => WalletCanCancel(wallet, inflight[s].id)
    /\ wallet' = IF outcome = "error" THEN wallet
                 ELSE WalletCancel(wallet, inflight[s].id)
    /\ UNCHANGED <<cfg, input, response, book>>
    /\ IF Retried(s, "CancelReservation", outcome)
         THEN Retry(s, "CancelReservation", outcome)
         ELSE /\ history' = Seen(s, "CancelReservation", outcome)
              /\ pc' = [pc EXCEPT ![s] = "done"]
              /\ attempts' = [attempts EXCEPT ![s] = 0]
              /\ inflight' = [inflight EXCEPT ![s] = NotInFlight]
              /\ returned' = [returned EXCEPT ![s] = FinalReport(result[s], err[s],
                                CompensationFailed(history'[s]))]
              /\ UNCHANGED <<result, err, reservationID, orderID, placeMatchID,
                             deferred>>

----------------------------------------------------------------------------
(* Cancellation of the workflow *)

ForwardActivities ==
    { "ValidateOrder", "ReserveFunds", "PlaceOrderInBook", "CommitReservation" }

\* result.FailureReason = fmt.Sprintf("... failed: %v", err)
FailurePrefix(activity) ==
    CASE activity = "ValidateOrder" -> "validation failed: "
      [] activity = "ReserveFunds" -> "fund reservation failed: "
      [] activity = "PlaceOrderInBook" -> "order placement failed: "
      [] activity = "CommitReservation" -> "reservation commit failed: "

\* The workflow's context is cancelled while saga s is at an activity.  Get
\* on a cancelled context returns a CanceledError at once, abandoning the
\* attempt in flight.  At a forward step the workflow sets Failed and returns;
\* the deferred compensate runs on the same context, ctx, so each of its
\* ExecuteActivity calls returns the CanceledError without the activity being
\* scheduled, the error is logged, and the workflow's return is delivered.
\* During compensate the same holds for the call in flight and the ones left.
WorkflowCancelled(s) ==
    LET e == "canceled"
        forward == pc[s] \in ForwardActivities
        res == IF forward THEN Failed(result[s], FailurePrefix(pc[s]) \o e)
               ELSE result[s]
        reported == IF forward THEN e ELSE err[s] IN
    /\ pc[s] \in Activities
    /\ pc' = [pc EXCEPT ![s] = "done"]
    /\ attempts' = [attempts EXCEPT ![s] = 0]
    /\ inflight' = [inflight EXCEPT ![s] = NotInFlight]
    /\ result' = [result EXCEPT ![s] = res]
    /\ err' = [err EXCEPT ![s] = reported]
    /\ returned' = [returned EXCEPT ![s] = FinalReport(res, reported, TRUE)]
    /\ history' = IF inflight[s] = NotInFlight THEN history
                  ELSE Seen(s, pc[s], "canceled")
    /\ UNCHANGED <<cfg, input, reservationID, orderID, placeMatchID, deferred,
                   wallet, book, response>>

----------------------------------------------------------------------------
(* Downstream answers without an identifier *)

\* An attempt of ReserveFunds answered without error and with an empty
\* ReservationId: the activity hands resp.ReservationId on as it is, and the
\* workflow records it and registers the deferred compensation.
ReserveFundsReturnsNoID(s) ==
    /\ pc[s] = "ReserveFunds"
    /\ inflight[s] # NotInFlight
    /\ history' = Seen(s, "ReserveFunds", "ok")
    /\ reservationID' = [reservationID EXCEPT ![s] = ""]
    /\ deferred' = [deferred EXCEPT ![s] = TRUE]
    /\ Advance(s, "PlaceOrderInBook",
          [result[s] EXCEPT !.ReservationID = "",
                            !.Status = OrderStatusMatching])
    /\ UNCHANGED <<cfg, input, response, wallet, book, orderID, placeMatchID>>

\* An attempt of PlaceOrderInBook answered without error and with an empty
\* OrderId and no match.
PlaceOrderInBookReturnsNoID(s) ==
    /\ pc[s] = "PlaceOrderInBook"
    /\ inflight[s] # NotInFlight
    /\ history' = Seen(s, "PlaceOrderInBook", "ok")
    /\ orderID' = [orderID EXCEPT ![s] = ""]
    /\ placeMatchID' = [placeMatchID EXCEPT ![s] = ""]
    /\ Advance(s, "CommitReservation", [result[s] EXCEPT !.OrderID = ""])
    /\ UNCHANGED <<cfg, input, response, wallet, book, reservationID, deferred>>

----------------------------------------------------------------------------
(* One placement call and the saga it starts *)

\* A step of saga s; outcomes are the ways an attempt of ReserveFunds or
\* PlaceOrderInBook can end.
Step(s, outcomes) ==
    \/ ValidateOrderCall(s)
    \/ \E outcome \in Outcomes : ValidateOrderReturn(s, outcome)
    \/ ReserveFundsCall(s)
    \/ \E outcome \in outcomes : ReserveFundsReturn(s, outcome)
    \/ PlaceOrderInBookCall(s)
    \/ \E outcome \in outcomes, answer \in PlaceBetAnswers :
          PlaceOrderInBookReturn(s, outcome, answer)
    \/ CommitReservationCall(s)
    \/ \E outcome \in Outcomes : CommitReservationReturn(s, outcome)
    \/ CancelOrderCall(s)
    \/ \E outcome \in Outcomes : CancelOrderReturn(s, outcome)
    \/ CancelReservationCall(s)
    \/ \E outcome \in Outcomes : CancelReservationReturn(s, outcome)

\* The handler takes one placement call.
OnePlacement ==
    /\ response = NoResponse
    /\ \E req \in PlaceOrderRequests, u \in UUIDs, started \in BOOLEAN :
          PlaceOrder(req, u, started)

Next ==
    \/ OnePlacement
    \/ \E s \in SagaIDs : Step(s, Outcomes)

Spec == Init /\ [][Next]_vars

\* The same, when every failed attempt of ReserveFunds and PlaceOrderInBook
\* is a timeout: the service applied the request and its answer was lost.
NextTimeouts ==
    \/ OnePlacement
    \/ \E s \in SagaIDs : Step(s, {"ok", "timeout"})

SpecTimeouts == Init /\ [][NextTimeouts]_vars

\* The same, when every failed attempt of ReserveFunds and PlaceOrderInBook
\* is an explicit rejection by the service (insufficient funds, market
\* closed): the activity wraps the service's error and returns it.
NextRejections ==
    \/ OnePlacement
    \/ \E s \in SagaIDs : Step(s, {"ok", "error"})

SpecRejections == Init /\ [][NextRejections]_vars

\* ValidateOrder on any models.PlaceOrderRequest: the workflow of the first
\* saga is started on a request of ValidatorRequests and runs its first step.
ValidatorRequests ==
    [UserID : {"6ba7b810-9dad-11d1-80b4-00c04fd430c8",
               "00000000-0000-0000-0000-000000000000"},
     EventID : {"event_123", ""}, MarketID : {"market_456", ""},
     SelectionID : {"selection_789", ""},
     Side : {OrderSideBack, OrderSideLay, "INVALID"},
     Odds : {1000, 1005, 1010, 1000000, 1000001},
     Stake : {0, 999, 1000, 10000000, 10000001},
     Currency : {"USD", "US", "12$"},
     IdempotencyKey : {"test_key", ""}]

InitValidator ==
    /\ \E r \in ValidatorRequests :
          input = [s \in SagaIDs |-> IF s = SagaIDOf(1) THEN r ELSE NoRequest]
    /\ pc = [s \in SagaIDs |-> IF s = SagaIDOf(1) THEN "ValidateOrder" ELSE "none"]
    /\ inflight = [s \in SagaIDs |-> NotInFlight]
    /\ attempts = [s \in SagaIDs |-> 0]
    /\ result = [s \in SagaIDs |-> NewResult]
    /\ err = [s \in SagaIDs |-> ""]
    /\ reservationID = [s \in SagaIDs |-> ""]
    /\ orderID = [s \in SagaIDs |-> ""]
    /\ placeMatchID = [s \in SagaIDs |-> ""]
    /\ deferred = [s \in SagaIDs |-> FALSE]
    /\ returned = [s \in SagaIDs |-> NotReturned]
    /\ history = [s \in SagaIDs |-> NoHistory]
    /\ wallet = <<>>
    /\ book = <<>>
    /\ response = NoResponse
    /\ cfg = Loaded(DefaultConfig)

NextValidator ==
    \E s \in SagaIDs :
        \/ ValidateOrderCall(s)
        \/ \E outcome \in {"ok", "error"} : ValidateOrderReturn(s, outcome)

SpecValidator == InitValidator /\ [][NextValidator]_vars

\* Two placement calls, the second while the saga of the first may still run:
\* every call gets its own uuid.New() and its own workflow.
TwoPlacements ==
    /\ Cardinality({ s \in SagaIDs : input[s] # NoRequest }) < 2
    /\ \E req \in PlaceOrderRequests, u \in UUIDs, started \in BOOLEAN :
          PlaceOrder(req, u, started)

\* A step of saga s when validation, the wallet's reservation and the order
\* book answer every attempt, and only the wallet's commit and the
\* compensations can fail.
ConcurrentStep(s) ==
    \/ ValidateOrderCall(s)
    \/ ValidateOrderReturn(s, "ok")
    \/ ReserveFundsCall(s)
    \/ ReserveFundsReturn(s, "ok")
    \/ PlaceOrderInBookCall(s)
    \/ PlaceOrderInBookReturn(s, "ok", [status |-> "MATCHED", matched |-> TRUE])
    \/ CommitReservationCall(s)
    \/ \E outcome \in {"ok", "error"} : CommitReservationReturn(s, outcome)
    \/ CancelOrderCall(s)
    \/ \E outcome \in {"ok", "error"} : CancelOrderReturn(s, outcome)
    \/ CancelReservationCall(s)
    \/ \E outcome \in {"ok", "error"} : CancelReservationReturn(s, outcome)

NextConcurrent ==
    \/ TwoPlacements
    \/ \E s \in SagaIDs : ConcurrentStep(s)

SpecConcurrent == Init /\ [][NextConcurrent]_vars

\* One placement call, its saga, and status queries by clients once the
\* placement call has been answered.
StatusQuery ==
    /\ response # NoResponse
    /\ \E sagaID \in SagaIDs \cup {"", "place-order-0"} : GetOrderStatus(sagaID)

NextStatus ==
    \/ OnePlacement
    \/ \E s \in SagaIDs : Step(s, Outcomes)
    \/ StatusQuery

SpecStatus == Init /\ [][NextStatus]_vars

\* One placement call and its saga, whose workflow can be cancelled at any
\* activity.
NextCancellation ==
    \/ OnePlacement
    \/ \E s \in SagaIDs : Step(s, Outcomes)
    \/ \E s \in SagaIDs : WorkflowCancelled(s)

SpecCancellation == Init /\ [][NextCancellation]_vars

\* One placement call and its saga when every downstream call eventually
\* returns or times out: the worker keeps taking the saga's next step, an
\* attempt in flight ends (StartToCloseTimeout), and a scheduled attempt
\* starts.
SpecLive ==
    /\ Init /\ [][Next]_vars
    /\ \A s \in SagaIDs : WF_vars(Step(s, Outcomes))

\* One placement call and its saga when the wallet and the order book may
\* also answer a request without an identifier.
NextEmptyIds ==
    \/ OnePlacement
    \/ \E s \in SagaIDs : Step(s, {"ok", "error"})
    \/ \E s \in SagaIDs : ReserveFundsReturnsNoID(s)
    \/ \E s \in SagaIDs : PlaceOrderInBookReturnsNoID(s)

SpecEmptyIds == Init /\ [][NextEmptyIds]_vars

\* Startup: config.Load validates the configuration it has unmarshalled from
\* the file, the environment and the defaults.
Configs ==
    [GRPCPort : {0, 1, 8090, 65535, 65536}, HTTPPort : {-1, 8091, 65536},
     MetricsPort : {0, 9091, 65536},
     ServerAddress : {"", DefaultConfig.ServerAddress},
     Namespace : {"", "tam-platform"}, TaskQueue : {"", "order-validator"},
     WalletServiceAddr : {"", DefaultConfig.WalletServiceAddr},
     OrderBookServiceAddr : {"", DefaultConfig.OrderBookServiceAddr},
     Level : {"info", "INFO", "Warn", "verbose"}]

InitConfig ==
    /\ \E c \in Configs : cfg = Unmarshalled(c)
    /\ input = [s \in SagaIDs |-> NoRequest]
    /\ pc = [s \in SagaIDs |-> "none"]
    /\ inflight = [s \in SagaIDs |-> NotInFlight]
    /\ attempts = [s \in SagaIDs |-> 0]
    /\ result = [s \in SagaIDs |-> NewResult]
    /\ err = [s \in SagaIDs |-> ""]
    /\ reservationID = [s \in SagaIDs |-> ""]
    /\ orderID = [s \in SagaIDs |-> ""]
    /\ placeMatchID = [s \in SagaIDs |-> ""]
    /\ deferred = [s \in SagaIDs |-> FALSE]
    /\ returned = [s \in SagaIDs |-> NotReturned]
    /\ history = [s \in SagaIDs |-> NoHistory]
    /\ wallet = <<>>
    /\ book = <<>>
    /\ response = NoResponse

\* "if err := config.Validate(); err != nil { return nil, ... }"
LoadValidate ==
    /\ ~cfg.validated
    /\ cfg' = Loaded(cfg.config)
    /\ UNCHANGED <<WorkflowVars, wallet, book, response>>

NextConfig == LoadValidate

SpecConfig == InitConfig /\ [][NextConfig]_vars

----------------------------------------------------------------------------
(* Properties *)

Calls(s, activity) == history[s][activity].calls
KeysSent(s, activity) == { r.key : r \in history[s][activity].sent }
Last(s, activity) == history[s][activity].last

\* ExecuteActivity(...).Get returned nil for the activity.
Succeeded(s, activity) == Last(s, activity) = "ok"

\* ExecuteActivity(...).Get returned an error after the last allowed attempt.
Exhausted(s, activity) ==
    /\ pc[s] # activity
    /\ Last(s, activity) \in {"error", "timeout"}
    /\ Calls(s, activity) = MaxAttemptsOf(activity)

\* The activity has been invoked and has returned.
HasReturned(s, activity) ==
    Calls(s, activity) > 0 /\ pc[s] # activity /\ Last(s, activity) # "none"

ReservationState(id) ==
    { wallet[k].state : k \in WalletKeysOf(wallet, id) }

\* C1: when reserveFunds and placeOrder succeeded and commitReservation failed
\* after its retries, the saga is Failed, CancelOrder and CancelReservation are
\* each invoked at most once and, once the workflow has returned, exactly once,
\* with the recorded orderID and reservationID; and in every saga CancelOrder,
\* when invoked, has returned before CancelReservation is invoked.
C1_DoubleCompensation ==
    \A s \in SagaIDs :
        /\ (Succeeded(s, "ReserveFunds") /\ Succeeded(s, "PlaceOrderInBook")
                /\ Exhausted(s, "CommitReservation"))
            => /\ result[s].Status = OrderStatusFailed
               /\ Calls(s, "CancelOrder") <= 1
               /\ Calls(s, "CancelReservation") <= 1
               /\ Calls(s, "CancelReservation") = 1 => HasReturned(s, "CancelOrder")
               /\ pc[s] = "done" =>
                    /\ returned[s].result.Status = OrderStatusFailed
                    /\ history[s]["CancelOrder"].sent =
                          {[key |-> CancelOrderKey(s), id |-> orderID[s]]}
                    /\ history[s]["CancelReservation"].sent =
                          {[key |-> CancelReservationKey(s), id |-> reservationID[s]]}
                    /\ Calls(s, "CancelOrder") = 1
                    /\ Calls(s, "CancelReservation") = 1
        /\ (Calls(s, "CancelOrder") > 0 /\ Calls(s, "CancelReservation") > 0)
            => HasReturned(s, "CancelOrder")

C1_Witness ==
    \E s \in SagaIDs :
        /\ pc[s] = "done"
        /\ Succeeded(s, "ReserveFunds") /\ Succeeded(s, "PlaceOrderInBook")
        /\ Exhausted(s, "CommitReservation")
        /\ Calls(s, "CancelOrder") = 1 /\ Calls(s, "CancelReservation") = 1
        /\ Last(s, "CancelOrder") = "error"

\* C2: when reserveFunds succeeded and placeOrder failed after its retries, the
\* saga is Failed, CancelOrder is never invoked, and CancelReservation is
\* invoked at most once and, once the workflow has returned, exactly once, with
\* the reservation the wallet returned and the saga's cancel-reservation key.
C2_SingleCompensation ==
    \A s \in SagaIDs :
        (Succeeded(s, "ReserveFunds") /\ Exhausted(s, "PlaceOrderInBook"))
            => /\ result[s].Status = OrderStatusFailed
               /\ Calls(s, "CancelOrder") = 0
               /\ Calls(s, "CancelReservation") <= 1
               /\ pc[s] \in {"CancelReservation", "done"}
               /\ pc[s] = "done" =>
                    /\ returned[s].result.Status = OrderStatusFailed
                    /\ Calls(s, "CancelReservation") = 1
                    /\ history[s]["CancelReservation"].sent =
                          {[key |-> s \o "-cancel-reservation",
                            id |-> wallet[ReserveKey(input[s])].id]}

C2_Witness ==
    \E s \in SagaIDs :
        /\ pc[s] = "done"
        /\ Succeeded(s, "ReserveFunds") /\ Exhausted(s, "PlaceOrderInBook")
        /\ Calls(s, "CancelReservation") = 1

\* C3 as claimed: when all four steps succeeded the workflow ends Settled, and
\* every Settled result has a non-empty reservationID, orderID and matchID.
C3_SettledCarriesMatchID ==
    \A s \in SagaIDs :
        /\ Succeeded(s, "CommitReservation")
            => pc[s] = "done" /\ returned[s].result.Status = OrderStatusSettled
        /\ result[s].Status = OrderStatusSettled
            => /\ result[s].ReservationID # ""
               /\ result[s].OrderID # ""
               /\ result[s].MatchID # ""

\* C3, amended: when all four steps succeeded the workflow ends Settled, and
\* every Settled result carries the non-empty reservationID and orderID the
\* services returned, and as matchID the match id of the order book's answer,
\* which is empty when the order was placed without a match.
C3_SettledCarriesAnswer ==
    \A s \in SagaIDs :
        /\ Succeeded(s, "CommitReservation")
            => /\ pc[s] = "done"
               /\ returned[s].result.Status = OrderStatusSettled
               /\ returned[s].err = ""
        /\ result[s].Status = OrderStatusSettled
            => /\ Succeeded(s, "CommitReservation")
               /\ result[s].ReservationID # ""
               /\ result[s].ReservationID = wallet[ReserveKey(input[s])].id
               /\ result[s].OrderID # ""
               /\ result[s].OrderID = book[OrderKey(input[s])].id
               /\ result[s].MatchID = book[OrderKey(input[s])].matchId

C3_Witness ==
    \E s \in SagaIDs :
        /\ pc[s] = "done"
        /\ result[s].Status = OrderStatusSettled
        /\ result[s].MatchID = ""
        /\ book[OrderKey(input[s])].status = "PENDING"

\* C4: in a compensation that has an orderID and a reservationID, CancelOrder
\* failing does not stop it: CancelReservation is the next call, and it has
\* been invoked once when the workflow returns, whatever CancelOrder returned.
C4_BothAttempted ==
    \A s \in SagaIDs :
        (HasReturned(s, "CancelOrder") /\ reservationID[s] # "")
            => /\ pc[s] \in {"CancelReservation", "done"}
               /\ pc[s] = "done" => Calls(s, "CancelReservation") = 1

C4_Witness ==
    \E s \in SagaIDs :
        /\ pc[s] = "done"
        /\ reservationID[s] # "" /\ orderID[s] # ""
        /\ Last(s, "CancelOrder") \in {"error", "timeout"}
        /\ Calls(s, "CancelReservation") = 1

\* C5 as claimed: a workflow whose CancelReservation or CancelOrder failed
\* returns a report that differs from the report the same run returns when its
\* compensation succeeds.
C5_CompensationFailureReported ==
    \A s \in SagaIDs :
        (returned[s] # NotReturned /\ CompensationFailed(history[s]))
            => returned[s] # FinalReport(result[s], err[s], FALSE)

\* C6 as claimed: a saga that recorded a reservation has returned only if the
\* wallet holds that reservation as committed or as cancelled.
C6_ReservationResolved ==
    \A s \in SagaIDs :
        (pc[s] = "done" /\ reservationID[s] # "")
            => ReservationState(reservationID[s]) \subseteq {"committed", "cancelled"}

\* C7 as claimed: CancelReservation is never invoked for a reservation that
\* the wallet has committed.
C7_NeverCancelCommitted ==
    \A s \in SagaIDs :
        \A r \in history[s]["CancelReservation"].sent :
            "committed" \notin ReservationState(r.id)

\* C8 as claimed: a saga whose reserveFunds (placeOrder) failed by timeout on
\* every attempt has invoked CancelReservation (CancelOrder) when it returns.
C8_TimeoutCompensated ==
    \A s \in SagaIDs :
        pc[s] = "done" =>
            /\ (Exhausted(s, "ReserveFunds") /\ Last(s, "ReserveFunds") = "timeout")
                  => Calls(s, "CancelReservation") > 0
            /\ (Exhausted(s, "PlaceOrderInBook")
                    /\ Last(s, "PlaceOrderInBook") = "timeout")
                  => Calls(s, "CancelOrder") > 0

ReservationsOf(s) == DOMAIN wallet \cap KeysSent(s, "ReserveFunds")
OrdersOf(s) == DOMAIN book \cap KeysSent(s, "PlaceOrderInBook")

\* C9: all attempts of a forward step carry one idempotency key, and the
\* attempts of reserveFunds (placeOrder) leave at most one reservation (order)
\* downstream: exactly one once an attempt was applied or the step succeeded.
C9_IdempotentRetry ==
    \A s \in SagaIDs :
        /\ \A a \in {"ReserveFunds", "PlaceOrderInBook", "CommitReservation"} :
              Cardinality(KeysSent(s, a)) <= 1
        /\ Cardinality(ReservationsOf(s)) <= 1
        /\ Cardinality(OrdersOf(s)) <= 1
        /\ Last(s, "ReserveFunds") \in {"ok", "timeout"}
              => Cardinality(ReservationsOf(s)) = 1
        /\ Last(s, "PlaceOrderInBook") \in {"ok", "timeout"}
              => Cardinality(OrdersOf(s)) = 1

C9_Witness ==
    \E s \in SagaIDs :
        /\ Calls(s, "ReserveFunds") = MaximumAttempts
        /\ Succeeded(s, "ReserveFunds")
        /\ Calls(s, "PlaceOrderInBook") = MaximumAttempts
        /\ Succeeded(s, "PlaceOrderInBook")
        /\ Cardinality(ReservationsOf(s)) = 1
        /\ Cardinality(OrdersOf(s)) = 1

\* C10 as claimed: no two different steps of a saga send the same idempotency
\* token downstream.
C10_TokensDistinct ==
    \A s \in SagaIDs :
        \A a, b \in Activities \ {"ValidateOrder"} :
            a # b => KeysSent(s, a) \cap KeysSent(s, b) = {}

\* C11 as claimed: two sagas with different saga identifiers never send the
\* same idempotency token downstream, whatever keys their requests carry.
C11_TokensDistinctAcrossSagas ==
    \A s, t \in SagaIDs :
        s # t =>
            \A a, b \in Activities \ {"ValidateOrder"} :
                KeysSent(s, a) \cap KeysSent(t, b) = {}

Downstream ==
    { "ReserveFunds", "PlaceOrderInBook", "CommitReservation", "CancelOrder",
      "CancelReservation" }

\* The validator has answered the saga's request and found it invalid.
ReportedInvalid(s) ==
    /\ input[s] # NoRequest
    /\ Succeeded(s, "ValidateOrder")
    /\ ~ValidateOrder(input[s]).Valid

\* C12: when the validator reports the request invalid, the saga ends Failed
\* with the validator's reason as failure reason, the workflow returns that
\* result, and no downstream activity is ever invoked for the saga.
C12_InvalidEndsFailed ==
    \A s \in SagaIDs :
        ReportedInvalid(s)
            => /\ pc[s] = "done"
               /\ result[s].Status = OrderStatusFailed
               /\ result[s].FailureReason = ValidateOrder(input[s]).Reason
               /\ result[s].FailureReason # ""
               /\ returned[s] # NotReturned
               /\ returned[s].result = result[s]
               /\ \A a \in Downstream : Calls(s, a) = 0

C12_Witness ==
    \E s \in SagaIDs :
        /\ ReportedInvalid(s)
        /\ returned[s] # NotReturned
        /\ returned[s].result.FailureReason = "stake too low: minimum is 1"
        /\ \A a \in Downstream : Calls(s, a) = 0

\* C13: when reserveFunds has failed on its last attempt, the saga ends Failed
\* with a failure reason set, the workflow returns that result, and neither a
\* compensating call nor placeOrder nor commitReservation is ever invoked.
C13_ReserveFailureEndsFailed ==
    \A s \in SagaIDs :
        Exhausted(s, "ReserveFunds")
            => /\ pc[s] = "done"
               /\ result[s].Status = OrderStatusFailed
               /\ result[s].FailureReason # ""
               /\ returned[s] # NotReturned
               /\ returned[s].result = result[s]
               /\ \A a \in Downstream \ {"ReserveFunds"} : Calls(s, a) = 0

C13_Witness ==
    \E s \in SagaIDs :
        /\ Exhausted(s, "ReserveFunds")
        /\ Calls(s, "ReserveFunds") = MaximumAttempts
        /\ returned[s] # NotReturned
        /\ returned[s].result.Status = OrderStatusFailed
        /\ Calls(s, "CancelReservation") = 0

\* C14 as claimed: a forward call the downstream service rejects is invoked
\* once and never retried, and the saga fails.
C14_RejectionNotRetried ==
    \A s \in SagaIDs :
        \A a \in {"ReserveFunds", "PlaceOrderInBook"} :
            Last(s, a) = "error"
                => /\ Calls(s, a) = 1
                   /\ result[s].Status = OrderStatusFailed

\* The order book answered the saga's placement with an order already
\* cancelled.
PlacedCancelled(s) ==
    /\ Succeeded(s, "PlaceOrderInBook")
    /\ book[OrderKey(input[s])].status = "CANCELLED"

\* C15 as claimed: when placeOrder reports the order as already cancelled the
\* saga does not go on to commitReservation: it ends Failed and
\* CancelReservation is invoked for the reservation.
C15_CancelledPlacementFails ==
    \A s \in SagaIDs :
        PlacedCancelled(s)
            => /\ Calls(s, "CommitReservation") = 0
               /\ result[s].Status # OrderStatusSettled
               /\ pc[s] = "done"
                    => /\ result[s].Status = OrderStatusFailed
                       /\ Calls(s, "CancelReservation") = 1

\* How far a status is along Pending, Validating, Reserving, Matching and the
\* terminal statuses.
StatusRank(status) ==
    CASE status = OrderStatusPending -> 0
      [] status = OrderStatusValidating -> 1
      [] status = OrderStatusReserving -> 2
      [] status = OrderStatusMatching -> 3
      [] status \in {OrderStatusSettled, OrderStatusFailed, OrderStatusCancelled} -> 4

\* C16: in every step the status of every saga stays or moves forward: it
\* never returns to Pending after leaving it, a Settled or Failed status never
\* changes again, and what the workflow has returned never changes.
C16_StatusForward ==
    [][\A s \in SagaIDs :
          /\ StatusRank(result[s].Status) <= StatusRank(result'[s].Status)
          /\ result[s].Status # OrderStatusPending
                => result'[s].Status # OrderStatusPending
          /\ result[s].Status \in {OrderStatusSettled, OrderStatusFailed}
                => result'[s].Status = result[s].Status
          /\ returned[s] # NotReturned => returned'[s] = returned[s]]_vars

C16_Witness ==
    \E s \in SagaIDs :
        /\ pc[s] = "done"
        /\ Calls(s, "CommitReservation") = MaximumAttempts
        /\ result[s].Status = OrderStatusFailed
        /\ HasReturned(s, "CancelOrder")
        /\ HasReturned(s, "CancelReservation")
        /\ returned[s].result.Status = OrderStatusFailed

\* The currencies of ValidatorRequests that are three letters.
ThreeLetterCodes == {"USD"}

\* Spec 4.1 (a): required fields present and well-formed.
IdsPresent(r) ==
    /\ r.UserID # "00000000-0000-0000-0000-000000000000"
    /\ r.EventID # "" /\ r.MarketID # "" /\ r.SelectionID # ""
    /\ r.IdempotencyKey # ""

WellFormed(r) ==
    /\ IdsPresent(r)
    /\ r.Side \in {"BACK", "LAY"}
    /\ r.Currency \in ThreeLetterCodes

\* The validator has answered the request of saga s.
Validated(s) == input[s] # NoRequest /\ Succeeded(s, "ValidateOrder")

\* C17: a well-formed request with stake in [1, 10000] and odds in
\* [1.01, 1000], bounds included, is valid: ValidateOrder answers valid=true
\* without a reason and the workflow goes on to reserve funds.
C17_InRangeIsValid ==
    \A s \in SagaIDs :
        (/\ input[s] # NoRequest
         /\ WellFormed(input[s])
         /\ input[s].Stake >= 1000 /\ input[s].Stake <= 10000000
         /\ input[s].Odds >= 1010 /\ input[s].Odds <= 1000000)
            => /\ ValidateOrder(input[s]) = [Valid |-> TRUE, Reason |-> ""]
               /\ Validated(s)
                    => /\ result[s].Status = OrderStatusReserving
                       /\ result[s].FailureReason = ""
                       /\ pc[s] = "ReserveFunds"

C17_Witness ==
    \E s \in SagaIDs :
        /\ Validated(s)
        /\ WellFormed(input[s])
        /\ input[s].Stake = 10000000
        /\ input[s].Odds = 1010
        /\ result[s].Status = OrderStatusReserving

\* The causes a request can be invalid for, and for each the requests it
\* holds of and the reason reported for it.
Causes ==
    { "odds not above 1.0", "stake not positive", "bad currency", "bad side",
      "stake too low", "stake too high", "odds too low", "odds too high" }

CauseHolds(r, c) ==
    CASE c = "odds not above 1.0" -> r.Odds <= 1000
      [] c = "stake not positive" -> r.Stake <= 0
      [] c = "bad currency" -> Len(r.Currency) # 3
      [] c = "bad side" -> r.Side \notin {"BACK", "LAY"}
      [] c = "stake too low" -> r.Stake < 1000
      [] c = "stake too high" -> r.Stake > 10000000
      [] c = "odds too low" -> r.Odds < 1010
      [] c = "odds too high" -> r.Odds > 1000000

CausesOf(r) == { c \in Causes : CauseHolds(r, c) }

CauseReason(c) ==
    CASE c = "odds not above 1.0" -> "invalid odds: must be greater than 1.0"
      [] c = "stake not positive" -> "invalid stake: must be positive"
      [] c = "bad currency" -> "invalid currency: must be 3-letter code"
      [] c = "bad side" -> "invalid side: must be BACK or LAY"
      [] c = "stake too low" -> "stake too low: minimum is 1"
      [] c = "stake too high" -> "stake too high: maximum is 10000"
      [] c = "odds too low" -> "odds too low: minimum is 1.01"
      [] c = "odds too high" -> "odds too high: maximum is 1000"

\* C18: a request with stake below 1 or above 10000 or odds below 1.01 or
\* above 1000 is invalid; the reason of an invalid request is the reason of
\* one of the causes that hold of it, the same for every request with that
\* cause, and the reasons of the eight causes are pairwise distinct; the
\* workflow ends Failed with that reason.
C18_OutOfRangeIsInvalid ==
    \A s \in SagaIDs :
        input[s] # NoRequest =>
            LET r == input[s]
                v == ValidateOrder(input[s]) IN
            /\ (r.Stake < 1000 \/ r.Stake > 10000000
                    \/ r.Odds < 1010 \/ r.Odds > 1000000) => ~v.Valid
            /\ ~v.Valid => \E c \in CausesOf(r) : v.Reason = CauseReason(c)
            /\ \A c, d \in Causes : c # d => CauseReason(c) # CauseReason(d)
            /\ (Validated(s) /\ ~v.Valid)
                  => /\ result[s].Status = OrderStatusFailed
                     /\ result[s].FailureReason = v.Reason

C18_Witness ==
    \E s \in SagaIDs :
        /\ Validated(s)
        /\ CausesOf(input[s]) = {"odds too low"}
        /\ result[s].Status = OrderStatusFailed
        /\ result[s].FailureReason = "odds too low: minimum is 1.01"

\* The first cause of the sequence order that holds of r.
FirstFailing(r, order) ==
    order[CHOOSE i \in 1 .. Len(order) :
            /\ CauseHolds(r, order[i])
            /\ \A j \in 1 .. (i - 1) : ~CauseHolds(r, order[j])]

\* Checks (b) to (e) of spec 4.1, in its order.
ClaimedOrder ==
    << "odds not above 1.0", "stake not positive", "stake too low",
       "stake too high", "odds too low", "odds too high" >>

\* C19 as claimed, on requests whose ids and idempotency key are present: a
\* request with a bad side or currency is reported with the reason of that
\* field check whatever its odds and stake are, and any other invalid request
\* with the reason of its first failing check among odds > 1.0, stake > 0,
\* stake within range, odds within range.
C19_FieldsCheckedFirst ==
    \A s \in SagaIDs :
        (Validated(s) /\ IdsPresent(input[s])) =>
            LET r == input[s]
                reason == result[s].FailureReason IN
            /\ (CauseHolds(r, "bad side") \/ CauseHolds(r, "bad currency"))
                  => /\ result[s].Status = OrderStatusFailed
                     /\ reason \in { CauseReason(c) :
                            c \in CausesOf(r) \cap {"bad side", "bad currency"} }
            /\ (~CauseHolds(r, "bad side") /\ ~CauseHolds(r, "bad currency")
                    /\ CausesOf(r) # {})
                  => /\ result[s].Status = OrderStatusFailed
                     /\ reason = CauseReason(FirstFailing(r, ClaimedOrder))

\* The checks of Validate and ValidateOrder, in their order.
CheckOrder ==
    << "odds not above 1.0", "stake not positive", "bad currency", "bad side",
       "stake too low", "stake too high", "odds too low", "odds too high" >>

\* C19, amended: a request that fails one or several of the checks odds > 1.0,
\* stake > 0, currency of length 3, side BACK or LAY, stake within range, odds
\* within range is invalid, and the reason reported, by ValidateOrder and as
\* the saga's failure reason, is that of the earliest failing check in this
\* order.
C19_EarliestCheckReported ==
    \A s \in SagaIDs :
        (input[s] # NoRequest /\ CausesOf(input[s]) # {}) =>
            LET r == input[s]
                v == ValidateOrder(input[s]) IN
            /\ ~v.Valid
            /\ v.Reason = CauseReason(FirstFailing(r, CheckOrder))
            /\ Validated(s)
                  => result[s].FailureReason
                        = CauseReason(FirstFailing(r, CheckOrder))

C19_Witness ==
    \E s \in SagaIDs :
        /\ Validated(s)
        /\ {"bad side", "bad currency", "odds not above 1.0", "stake not positive"}
              \subseteq CausesOf(input[s])
        /\ result[s].FailureReason = ErrInvalidOdds

\* C20 as claimed: a request with an empty user id, event id, market id,
\* selection id or idempotency key, a side that is neither BACK nor LAY, or a
\* currency that is not 3 letters is reported invalid and its saga ends Failed.
C20_MalformedIsInvalid ==
    \A s \in SagaIDs :
        (Validated(s) /\ ~WellFormed(input[s]))
            => /\ ~ValidateOrder(input[s]).Valid
               /\ result[s].Status = OrderStatusFailed

\* C21: a PlaceOrder call that answers OK has started exactly one saga, the
\* one whose identifier it returns, together with the status PENDING, and at
\* the moment it answers no step of that saga has run: no activity has been
\* called and the workflow has returned nothing.  A call that answers
\* anything else has started no saga.
C21_StartsOneSagaAndReturns ==
    [][response' # response =>
          /\ response'.code = "OK" =>
                LET s == response'.SagaId IN
                /\ s \in SagaIDs
                /\ input[s] = NoRequest /\ input'[s] # NoRequest
                /\ \A t \in SagaIDs \ {s} : input'[t] = input[t]
                /\ response'.Status = OrderStatusPending
                /\ pc'[s] = "ValidateOrder"
                /\ history'[s] = NoHistory
                /\ inflight'[s] = NotInFlight
                /\ result'[s].Status = OrderStatusPending
                /\ returned'[s] = NotReturned
          /\ response'.code # "OK" => input' = input]_vars

C21_Witness ==
    /\ response # NoResponse
    /\ response.code = "OK"
    /\ response.Status = OrderStatusPending
    /\ response.SagaId \in SagaIDs
    /\ pc[response.SagaId] = "ValidateOrder"
    /\ Calls(response.SagaId, "ValidateOrder") = 0

\* The answer of a status query (not of a placement call).
IsStatusAnswer(r) == r # NoResponse /\ "OrderId" \in DOMAIN r

\* C22 as claimed: a status query on a saga whose workflow has returned is
\* answered with the saga's final status (SETTLED or FAILED) and what the
\* saga recorded: for a Settled saga the reservation, order and match
\* identifiers, for a Failed saga the failure reason and the reservation
\* identifier.
C22_TerminalStatusReported ==
    [][(/\ IsStatusAnswer(response')
        /\ response'.code = "OK"
        /\ returned[response'.SagaId] # NotReturned)
          => LET res == returned[response'.SagaId].result IN
             /\ response'.Status = res.Status
             /\ res.Status = OrderStatusSettled
                  => /\ response'.ReservationId = res.ReservationID
                     /\ response'.OrderId = res.OrderID
                     /\ response'.MatchId = res.MatchID
             /\ res.Status = OrderStatusFailed
                  => /\ response'.FailureReason = res.FailureReason
                     /\ response'.ReservationId = res.ReservationID]_vars

\* C23 as claimed: a saga that holds a reservation when its workflow ends
\* Failed, cancelled or not, has had CancelReservation invoked, and CancelOrder
\* too when it had placed an order.
C23_CancellationKeepsCompensation ==
    \A s \in SagaIDs :
        (/\ returned[s] # NotReturned
         /\ returned[s].result.Status = OrderStatusFailed
         /\ reservationID[s] # "")
            => /\ Calls(s, "CancelReservation") > 0
               /\ orderID[s] # "" => Calls(s, "CancelOrder") > 0

\* C24 as claimed: every reservation identifier and every order identifier is
\* recorded by at most one saga, and a saga sends commit and cancel requests
\* only for identifiers no other saga recorded.
C24_IdsRecordedByOneSaga ==
    \A s, t \in SagaIDs :
        s # t =>
            /\ reservationID[s] # "" => reservationID[s] # reservationID[t]
            /\ orderID[s] # "" => orderID[s] # orderID[t]
            /\ \A a \in {"CommitReservation", "CancelReservation"} :
                  \A r \in history[s][a].sent :
                      r.id # "" => r.id # reservationID[t]
            /\ \A r \in history[s]["CancelOrder"].sent :
                  r.id # "" => r.id # orderID[t]

\* What must have happened in saga s before the forward activity is invoked.
PreviousStepSucceeded(s, activity) ==
    CASE activity = "ReserveFunds" ->
            Succeeded(s, "ValidateOrder") /\ ValidateOrder(input[s]).Valid
      [] activity = "PlaceOrderInBook" -> Succeeded(s, "ReserveFunds")
      [] activity = "CommitReservation" -> Succeeded(s, "PlaceOrderInBook")
      [] OTHER -> TRUE

\* C26: whenever a saga invokes an activity (any attempt of it), no other call
\* of that saga is in flight, and the invoked forward step's predecessor has
\* succeeded: reserveFunds only after validation returned valid, placeOrder
\* only after reserveFunds succeeded, commitReservation only after placeOrder
\* succeeded.
C26_StepsInSequence ==
    [][\A s \in SagaIDs : \A a \in Activities :
          history'[s][a].calls > history[s][a].calls
            => /\ inflight[s] = NotInFlight
               /\ inflight'[s] # NotInFlight
               /\ \A b \in Activities \ {a} :
                     history'[s][b].calls = history[s][b].calls
               /\ PreviousStepSucceeded(s, a)]_vars

C26_Witness ==
    \E s \in SagaIDs :
        /\ pc[s] = "CommitReservation"
        /\ inflight[s] # NotInFlight
        /\ Succeeded(s, "ValidateOrder")
        /\ Succeeded(s, "ReserveFunds")
        /\ Succeeded(s, "PlaceOrderInBook")
        /\ Calls(s, "ReserveFunds") > 1

Compensations == {"CancelOrder", "CancelReservation"}

\* C27: a saga that is compensating, or has invoked a compensating call, has
\* status Failed with a failure reason; while it compensates its workflow has
\* not returned; and a workflow that returned Failed after funds were
\* reserved has invoked CancelOrder (when an order was recorded) and
\* CancelReservation (when a reservation was recorded), and both have returned.
C27_FailedThenCompensateThenReturn ==
    \A s \in SagaIDs :
        /\ (pc[s] \in Compensations \/ \E a \in Compensations : Calls(s, a) > 0)
              => /\ result[s].Status = OrderStatusFailed
                 /\ result[s].FailureReason # ""
        /\ pc[s] \in Compensations => returned[s] = NotReturned
        /\ (/\ returned[s] # NotReturned
            /\ returned[s].result.Status = OrderStatusFailed
            /\ deferred[s])
              => /\ orderID[s] # "" => HasReturned(s, "CancelOrder")
                 /\ reservationID[s] # "" => HasReturned(s, "CancelReservation")

C27_Witness ==
    \E s \in SagaIDs :
        /\ returned[s] # NotReturned
        /\ returned[s].result.Status = OrderStatusFailed
        /\ returned[s].result.FailureReason # ""
        /\ Exhausted(s, "CommitReservation")
        /\ HasReturned(s, "CancelOrder")
        /\ HasReturned(s, "CancelReservation")

\* C28: a saga attempts each forward step at most 3 times and each
\* compensating call at most once; a forward step whose attempt failed is
\* attempted again until 3 attempts have failed, and then the saga is Failed;
\* a compensating call whose attempt failed is not attempted again.
C28_AttemptLimits ==
    \A s \in SagaIDs :
        /\ \A a \in ForwardActivities :
              /\ Calls(s, a) <= 3
              /\ (Last(s, a) \in {"error", "timeout"} /\ Calls(s, a) < 3)
                    => pc[s] = a
              /\ (Last(s, a) \in {"error", "timeout"} /\ Calls(s, a) = 3
                     /\ inflight[s] = NotInFlight)
                    => /\ pc[s] # a
                       /\ result[s].Status = OrderStatusFailed
        /\ \A a \in Compensations :
              /\ Calls(s, a) <= 1
              /\ Last(s, a) \in {"error", "timeout"} => pc[s] # a

C28_Witness ==
    \E s \in SagaIDs :
        /\ pc[s] = "done"
        /\ Calls(s, "ReserveFunds") = 3 /\ Succeeded(s, "ReserveFunds")
        /\ Calls(s, "CommitReservation") = 3
        /\ Last(s, "CommitReservation") = "error"
        /\ Calls(s, "CancelOrder") = 1 /\ Last(s, "CancelOrder") = "error"
        /\ Calls(s, "CancelReservation") = 1
        /\ Last(s, "CancelReservation") = "error"

\* The downstream calls saga s has made.
TotalCalls(s) ==
    Calls(s, "ValidateOrder") + Calls(s, "ReserveFunds")
      + Calls(s, "PlaceOrderInBook") + Calls(s, "CommitReservation")
      + Calls(s, "CancelOrder") + Calls(s, "CancelReservation")

\* C29: every saga that was started eventually has its workflow return with
\* status Settled or Failed, whatever the downstream failures, and never makes
\* more than 3 calls per forward step plus one per compensating call, 14 in
\* all.
C29_EverySagaTerminates ==
    /\ [](\A s \in SagaIDs : TotalCalls(s) <= 4 * 3 + 2)
    /\ \A s \in SagaIDs :
          (input[s] # NoRequest)
            ~> (/\ pc[s] = "done"
                /\ returned[s] # NotReturned
                /\ returned[s].result.Status
                      \in {OrderStatusSettled, OrderStatusFailed})

C29_Witness ==
    \E s \in SagaIDs :
        /\ pc[s] = "done"
        /\ returned[s] # NotReturned
        /\ returned[s].result.Status = OrderStatusFailed
        /\ TotalCalls(s) = 14

\* C30: a saga invokes CancelOrder only with a non-empty orderID and
\* CancelReservation only with a non-empty reservationID, each for the
\* identifier it recorded; and a saga whose workflow returned Failed after
\* reserveFunds succeeded has invoked CancelOrder exactly when its orderID is
\* non-empty and CancelReservation exactly when its reservationID is
\* non-empty.
C30_CompensateByIdentifier ==
    \A s \in SagaIDs :
        /\ Calls(s, "CancelOrder") > 0
              => /\ orderID[s] # ""
                 /\ \A r \in history[s]["CancelOrder"].sent : r.id = orderID[s]
        /\ Calls(s, "CancelReservation") > 0
              => /\ reservationID[s] # ""
                 /\ \A r \in history[s]["CancelReservation"].sent :
                       r.id = reservationID[s]
        /\ (/\ returned[s] # NotReturned
            /\ returned[s].result.Status = OrderStatusFailed
            /\ Succeeded(s, "ReserveFunds"))
              => /\ orderID[s] # "" <=> Calls(s, "CancelOrder") = 1
                 /\ reservationID[s] # "" <=> Calls(s, "CancelReservation") = 1

C30_Witness ==
    \E s \in SagaIDs :
        /\ returned[s] # NotReturned
        /\ returned[s].result.Status = OrderStatusFailed
        /\ Succeeded(s, "ReserveFunds")
        /\ reservationID[s] = ""
        /\ orderID[s] # ""
        /\ Calls(s, "CancelOrder") = 1
        /\ Calls(s, "CancelReservation") = 0

\* C31 as claimed: the saga's status is Validating while the validator runs,
\* Reserving while reserveFunds runs and Matching while placeOrder runs, and
\* changes only along Pending -> Validating -> Reserving -> Matching ->
\* Settled or to Failed, leaving Validating for Reserving only when the
\* request is valid.
C31_StatusChain ==
    [][\A s \in SagaIDs :
          /\ (pc[s] = "ValidateOrder" /\ inflight[s] # NotInFlight)
                => result[s].Status = OrderStatusValidating
          /\ pc[s] = "ReserveFunds" => result[s].Status = OrderStatusReserving
          /\ pc[s] = "PlaceOrderInBook" => result[s].Status = OrderStatusMatching
          /\ result'[s].Status # result[s].Status
                => /\ <<result[s].Status, result'[s].Status>> \in
                        { <<OrderStatusPending, OrderStatusValidating>>,
                          <<OrderStatusValidating, OrderStatusReserving>>,
                          <<OrderStatusReserving, OrderStatusMatching>>,
                          <<OrderStatusMatching, OrderStatusSettled>>,
                          <<OrderStatusValidating, OrderStatusFailed>>,
                          <<OrderStatusReserving, OrderStatusFailed>>,
                          <<OrderStatusMatching, OrderStatusFailed>> }
                   /\ result'[s].Status = OrderStatusReserving
                        => ValidateOrder(input[s]).Valid]_vars

\* C32 as claimed: the ReserveBalance request sent for a saga carries the
\* request's user id, its stake as amount, its currency, the saga id and the
\* reserve key; the PlaceBet request carries the request's event, market,
\* selection, side, odds and stake and the reservationID the saga recorded;
\* commit and cancel requests carry the recorded reservationID and orderID.
C32_RequestsCarrySuppliedValues ==
    \A s \in SagaIDs :
        /\ \A in \in history[s]["ReserveFunds"].sent :
              LET req == ReserveBalanceRequest(in) IN
              /\ req.UserId = input[s].UserID
              /\ DecimalFromString(req.Amount) = input[s].Stake
              /\ req.SagaId = s
              /\ req.IdempotencyKey = ReserveKey(input[s])
              /\ "Currency" \in DOMAIN req
              /\ req.Currency = input[s].Currency
        /\ \A in \in history[s]["PlaceOrderInBook"].sent :
              LET req == PlaceBetRequest(in) IN
              /\ req.EventId = input[s].EventID
              /\ req.MarketId = input[s].MarketID
              /\ req.SelectionId = input[s].SelectionID
              /\ req.BetType = input[s].Side
              /\ DecimalFromString(req.Odds) = input[s].Odds
              /\ DecimalFromString(req.Stake) = input[s].Stake
              /\ req.ReservationId = reservationID[s]
        /\ \A a \in {"CommitReservation", "CancelReservation"} :
              \A in \in history[s][a].sent : in.id = reservationID[s]
        /\ \A in \in history[s]["CancelOrder"].sent : in.id = orderID[s]

PortInRange(port) == port >= 1 /\ port <= 65535

\* C33 as claimed: a configuration in which the gRPC, HTTP or metrics port is
\* outside 1..65535, or the Temporal, wallet-service or order-book-service
\* address is empty, is rejected by startup validation with an error.
C33_BadConfigRejected ==
    cfg.validated =>
        LET c == cfg.config IN
        (\/ ~PortInRange(c.GRPCPort)
         \/ ~PortInRange(c.HTTPPort)
         \/ ~PortInRange(c.MetricsPort)
         \/ c.ServerAddress = ""
         \/ c.WalletServiceAddr = ""
         \/ c.OrderBookServiceAddr = "")
            => cfg.err # ""

\* C34: the result a workflow returns has status Settled or Failed; no saga
\* ever has status Cancelled; and a saga that has invoked a compensating call
\* has status Failed.
C34_ReturnsSettledOrFailed ==
    \A s \in SagaIDs :
        /\ returned[s] # NotReturned
              => returned[s].result.Status
                    \in {OrderStatusSettled, OrderStatusFailed}
        /\ result[s].Status # OrderStatusCancelled
        /\ (pc[s] \in Compensations \/ \E a \in Compensations : Calls(s, a) > 0)
              => result[s].Status = OrderStatusFailed

C34_Witness ==
    \E s \in SagaIDs :
        /\ returned[s] # NotReturned
        /\ returned[s].result.Status = OrderStatusFailed
        /\ Exhausted(s, "PlaceOrderInBook")
        /\ Calls(s, "CancelReservation") = 1
        /\ Calls(s, "CancelOrder") = 0

\* C35: when the workflow has returned, its error is non-nil exactly when the
\* result's status is Failed and exactly when the failure reason is
\* non-empty; a Settled result has an empty failure reason and a nil error;
\* a Failed result carries the reservationID and orderID the saga recorded.
C35_ErrorIffFailed ==
    \A s \in SagaIDs :
        returned[s] # NotReturned =>
            LET r == returned[s].result
                e == returned[s].err IN
            /\ e # "" <=> r.Status = OrderStatusFailed
            /\ e # "" <=> r.FailureReason # ""
            /\ r.Status = OrderStatusSettled => (r.FailureReason = "" /\ e = "")
            /\ r.Status = OrderStatusFailed
                  => /\ r.ReservationID = reservationID[s]
                     /\ r.OrderID = orderID[s]

C35_Witness ==
    \E s \in SagaIDs :
        /\ returned[s] # NotReturned
        /\ returned[s].result.Status = OrderStatusFailed
        /\ returned[s].err # ""
        /\ returned[s].result.ReservationID # ""
        /\ returned[s].result.OrderID # ""
        /\ Exhausted(s, "CommitReservation")

\* C36: a saga whose status is Settled has invoked neither CancelOrder nor
\* CancelReservation and is not about to: the deferred function compensates
\* only on status Failed or Cancelled.
C36_SettledNeverCompensates ==
    \A s \in SagaIDs :
        result[s].Status = OrderStatusSettled
            => /\ \A a \in Compensations : Calls(s, a) = 0
               /\ pc[s] = "done"
               /\ returned[s] # NotReturned

C36_Witness ==
    \E s \in SagaIDs :
        /\ returned[s] # NotReturned
        /\ returned[s].result.Status = OrderStatusSettled
        /\ deferred[s]
        /\ reservationID[s] # "" /\ orderID[s] # ""
        /\ Calls(s, "CancelOrder") = 0 /\ Calls(s, "CancelReservation") = 0

\* The request checks in the order of the claim, and the requests failing
\* each.
ClaimedRequestChecks == <<"user id", "stake", "odds", "idempotency key">>

RequestCheckFails(req, check) ==
    CASE check = "user id" -> ~ParsesAsUUID(req.UserId)
      [] check = "stake" -> req.Stake \notin DecimalTexts
      [] check = "odds" -> req.Odds \notin DecimalTexts
      [] check = "idempotency key" -> req.IdempotencyKey = ""

RequestCheckMessage(check) ==
    CASE check = "user id" -> "invalid user ID format"
      [] check = "stake" -> "invalid stake format"
      [] check = "odds" -> "invalid odds format"
      [] check = "idempotency key" -> "idempotency_key is required"

FailingRequestChecks(req) ==
    { i \in 1 .. Len(ClaimedRequestChecks) :
        RequestCheckFails(req, ClaimedRequestChecks[i]) }

\* C37: a PlaceOrder call whose request fails one of the checks user id
\* parses, stake parses, odds parse, idempotency key non-empty is answered
\* InvalidArgument with the message of the first failing check in this
\* order, and starts no workflow; a call whose workflow cannot be started is
\* answered Internal without a saga identifier; a GetOrderStatus call with an
\* empty saga id is answered InvalidArgument; none of these calls changes a
\* saga or a downstream service.
C37_HandlerRejections ==
    [][/\ response = NoResponse =>
          \A req \in PlaceOrderRequests, u \in UUIDs, started \in BOOLEAN :
            PlaceOrder(req, u, started) =>
                LET failing == FailingRequestChecks(req)
                    first == CHOOSE i \in failing : \A j \in failing : i <= j IN
                /\ failing # {}
                      => /\ response'.code = "InvalidArgument"
                         /\ response'.message =
                               RequestCheckMessage(ClaimedRequestChecks[first])
                         /\ response'.SagaId = ""
                         /\ UNCHANGED <<WorkflowVars, wallet, book>>
                /\ (failing = {} /\ ~started)
                      => /\ response'.code = "Internal"
                         /\ response'.SagaId = ""
                         /\ UNCHANGED <<WorkflowVars, wallet, book>>
       /\ GetOrderStatus("")
            => /\ response'.code = "InvalidArgument"
               /\ response'.message = "saga_id is required"
               /\ UNCHANGED <<WorkflowVars, wallet, book>>]_vars

C37_Witness ==
    /\ response # NoResponse
    /\ response.code = "InvalidArgument"
    /\ response.message = "idempotency_key is required"
    /\ \A s \in SagaIDs : input[s] = NoRequest

\* The sagas that exist.
Started == { s \in SagaIDs : input[s] # NoRequest }

\* C38: every accepted PlaceOrder call (its request passes the checks and
\* its workflow is started) adds exactly one saga, under an identifier no
\* saga had before and which the call returns, carrying the call's request,
\* and leaves every existing saga as it was, also when an existing saga
\* carries the same idempotency key.
C38_OneSagaPerAcceptedCall ==
    [][response' # response =>
          \A req \in PlaceOrderRequests, u \in UUIDs :
            (RequestRejection(req) = "" /\ PlaceOrder(req, u, TRUE)) =>
                LET sagaID == response'.SagaId IN
                /\ sagaID \in SagaIDs \ Started
                /\ Started' = Started \cup {sagaID}
                /\ input'[sagaID] = OrderRequestOf(req)
                /\ \A t \in Started :
                      /\ input'[t] = input[t]
                      /\ pc'[t] = pc[t]
                      /\ result'[t] = result[t]]_vars

C38_Witness ==
    \E s, t \in SagaIDs :
        /\ s # t
        /\ input[s] # NoRequest /\ input[t] # NoRequest
        /\ input[s].IdempotencyKey = input[t].IdempotencyKey
        /\ pc[s] = "done" /\ pc[t] = "ValidateOrder"
        /\ response.SagaId = t

====
